---- MODULE Spec2Model ----
(***************************************************************************)
(* Dishcovery backend: the streaming analyze-menu relay                    *)
(* (backend/main.py, backend/services/openai_service.py).                  *)
(*                                                                         *)
(* Text is modelled as a sequence of lexemes: one sequence element is one  *)
(* lexical unit of the upstream NDJSON text (a brace, a comma, a newline,  *)
(* a blank, a quoted key with its colon, a JSON value, or a run of prose). *)
(* Upstream fragments are cut between lexemes.                             *)
(*                                                                         *)
(* Specifications:                                                         *)
(*   Spec            one streaming request on every text                   *)
(*   FairSpec        the same on short texts, worker thread and request    *)
(*                   coroutine scheduled                                   *)
(*   SpecShapes      one streaming request on deltas of every shape and on *)
(*                   images that may fail to decode                        *)
(*   SpecDisconnect  FairSpec with a client that may go away               *)
(*   SpecRepeat      one streaming request on texts that repeat a line     *)
(*   SpecPair        two streaming requests in flight, chunk by chunk      *)
(*   SpecPool        two streaming requests on the threads of the loop's   *)
(*                   default executor, calls started in order              *)
(*   SpecTwoStep     analyze_menu_image (Markdown, then JSON)              *)
(*   SpecDetail      get_dish_detail and generate_image                    *)
(***************************************************************************)
EXTENDS Integers, Sequences, FiniteSets, TLC

\* ------------------------------------------------------------------------
\* Bounds of the model
\* ------------------------------------------------------------------------
MaxLines == 2
MaxQueue == 1
MaxLiveLen == 6
MaxItems == 2
MaxChunks == 2
MaxWorkers == 2

\* ------------------------------------------------------------------------
\* Lexemes
\* ------------------------------------------------------------------------
LB == "{"
RB == "}"
NL == "\n"
SP == " "
COMMA == ","
JUNK == "x"

KeyLexemes == {"name_en:", "name_zh:", "section:", "description_en:",
               "description_zh:", "dishes:"}

KeyOf(tok) ==
    CASE tok = "name_en:" -> "name_en"
      [] tok = "name_zh:" -> "name_zh"
      [] tok = "section:" -> "section"
      [] tok = "description_en:" -> "description_en"
      [] tok = "description_zh:" -> "description_zh"
      [] OTHER -> "dishes"

ValueLexemes == {"'A b'", "''", "5", "null", "[]", "[{}]"}

\* ------------------------------------------------------------------------
\* Python values produced by json.loads
\* ------------------------------------------------------------------------
PyStr(s) == [t |-> "str", s |-> s, n |-> 0]
PyNum(n) == [t |-> "num", s |-> <<>>, n |-> n]
PyNone == [t |-> "none", s |-> <<>>, n |-> 0]
\* a list, of which only the length is kept
PyList(n) == [t |-> "list", s |-> <<>>, n |-> n]

ValueOf(tok) ==
    CASE tok = "'A b'" -> PyStr(<<"A", " ", "b">>)
      [] tok = "''" -> PyStr(<<>>)
      [] tok = "5" -> PyNum(5)
      [] tok = "[]" -> PyList(0)
      [] tok = "[{}]" -> PyList(1)
      [] OTHER -> PyNone

\* Python truth value of a value
Truthy(v) ==
    CASE v.t = "str" -> v.s # <<>>
      [] v.t = "num" -> v.n # 0
      [] v.t = "list" -> v.n # 0
      [] OTHER -> FALSE

\* x or y
PyOr(x, y) == IF Truthy(x) THEN x ELSE y

\* ------------------------------------------------------------------------
\* str.strip, str.split("\n", 1), str.lower, str.replace(" ", "_")
\* ------------------------------------------------------------------------
IsSpace(tok) == tok \in {SP, NL}

RECURSIVE LStrip(_)
LStrip(s) ==
    IF s # <<>> /\ IsSpace(Head(s)) THEN LStrip(Tail(s)) ELSE s

RECURSIVE RStrip(_)
RStrip(s) ==
    IF s # <<>> /\ IsSpace(s[Len(s)]) THEN RStrip(SubSeq(s, 1, Len(s) - 1)) ELSE s

Strip(s) == RStrip(LStrip(s))

HasNewline(s) == \E i \in 1..Len(s) : s[i] = NL

FirstNewline(s) == CHOOSE i \in 1..Len(s) : s[i] = NL /\ \A j \in 1..(i - 1) : s[j] # NL

\* line, buffer = buffer.split("\n", 1)
SplitLine(s) ==
    LET i == FirstNewline(s)
    IN [line |-> SubSeq(s, 1, i - 1), rest |-> SubSeq(s, i + 1, Len(s))]

LowerChar(c) == IF c = "A" THEN "a" ELSE IF c = "B" THEN "b" ELSE c

Lower(s) == [i \in 1..Len(s) |-> LowerChar(s[i])]

ReplaceBlank(s) == [i \in 1..Len(s) |-> IF s[i] = " " THEN "_" ELSE s[i]]

StartsWith(s, tok) == s # <<>> /\ s[1] = tok

EndsWith(s, tok) == s # <<>> /\ s[Len(s)] = tok

\* ------------------------------------------------------------------------
\* json.loads on a lexeme sequence
\* ------------------------------------------------------------------------
EmptyDict == [k \in {} |-> PyNone]

DictPut(d, k, v) == [x \in (DOMAIN d) \cup {k} |-> IF x = k THEN v ELSE d[x]]

\* dict.get(k, default)
DictGet(d, k, default) == IF k \in DOMAIN d THEN d[k] ELSE default

JsonFail == [ok |-> FALSE, isdict |-> FALSE, data |-> EmptyDict, val |-> PyNone]

JsonDict(d) == [ok |-> TRUE, isdict |-> TRUE, data |-> d, val |-> PyNone]

JsonValue(v) == [ok |-> TRUE, isdict |-> FALSE, data |-> EmptyDict, val |-> v]

\* blanks between lexemes are insignificant
Squeeze(s) == SelectSeq(s, LAMBDA tok : ~IsSpace(tok))

\* members of an object: key value (, key value)*; a repeated key keeps the last
RECURSIVE ParseMembers(_, _)
ParseMembers(s, d) ==
    IF Len(s) < 2 \/ s[1] \notin KeyLexemes \/ s[2] \notin ValueLexemes
    THEN JsonFail
    ELSE LET d2 == DictPut(d, KeyOf(s[1]), ValueOf(s[2]))
         IN IF Len(s) = 2 THEN JsonDict(d2)
            ELSE IF s[3] = COMMA THEN ParseMembers(SubSeq(s, 4, Len(s)), d2)
            ELSE JsonFail

JsonLoads(s) ==
    LET q == Squeeze(s)
    IN IF q = <<>> THEN JsonFail
       ELSE IF Len(q) = 1 /\ q[1] \in ValueLexemes THEN JsonValue(ValueOf(q[1]))
       ELSE IF Len(q) >= 2 /\ q[1] = LB /\ q[Len(q)] = RB
            THEN IF Len(q) = 2 THEN JsonDict(EmptyDict)
                 ELSE ParseMembers(SubSeq(q, 2, Len(q) - 1), EmptyDict)
       ELSE JsonFail

\* ------------------------------------------------------------------------
\* The dish record built from a decoded line
\* ------------------------------------------------------------------------
NoDish == [name |-> PyNone, translation |-> PyNone, category |-> PyNone,
           category_translation |-> PyNone, menu_description |-> PyNone,
           translation_description |-> PyNone]

\* (data.get("section") or "") is a str exactly when .lower() does not raise
SectionRaises(data) ==
    PyOr(DictGet(data, "section", PyNone), PyStr(<<>>)).t # "str"

Category(data) ==
    PyStr(ReplaceBlank(Lower(PyOr(DictGet(data, "section", PyNone), PyStr(<<>>)).s)))

BuildDish(data) ==
    [name |-> DictGet(data, "name_en", PyStr(<<>>)),
     translation |-> DictGet(data, "name_zh", PyStr(<<>>)),
     category |-> Category(data),
     category_translation |-> DictGet(data, "section", PyStr(<<>>)),
     menu_description |-> PyOr(DictGet(data, "description_en", PyNone), PyNone),
     translation_description |-> PyOr(DictGet(data, "description_zh", PyNone), PyNone)]

\* pre-filter of a stripped line
ShapeOk(line) == line # <<>> /\ StartsWith(line, LB) /\ EndsWith(line, RB)

\* a decoder whose json.loads failure is not caught as a skip
SkipLine_ShapeOnly(line) == ~ShapeOk(line)

\* a resolved line that is dropped: the pre-filter, or json.loads raising
SkipLine(line) == ~ShapeOk(line) \/ ~JsonLoads(line).ok

\* the one element of a singleton set; a value bound through a singleton set
\* is evaluated once
Only(S) == CHOOSE x \in S : TRUE

\* an "if '\n' in buffer" in place of the while: one line per chunk
ProcessLines_Once(buf, acc) ==
    IF ~HasNewline(buf) THEN [dishes |-> acc, buffer |-> buf, raised |-> FALSE]
    ELSE LET sp == SplitLine(buf)
             line == Strip(sp.line)
             data == JsonLoads(line).data
         IN IF SkipLine(line) THEN [dishes |-> acc, buffer |-> sp.rest, raised |-> FALSE]
            ELSE IF SectionRaises(data)
                 THEN [dishes |-> acc, buffer |-> sp.rest, raised |-> TRUE]
            ELSE [dishes |-> Append(acc, BuildDish(data)), buffer |-> sp.rest,
                  raised |-> FALSE]

\* the "while '\n' in buffer" loop: dishes yielded, buffer left, and whether
\* building a dish raised (AttributeError from .lower() on a non-str)
RECURSIVE ProcessLines(_, _)
ProcessLines(buf, acc) ==
    IF ~HasNewline(buf) THEN [dishes |-> acc, buffer |-> buf, raised |-> FALSE]
    ELSE Only({ LET line == Strip(sp.line)
                    data == JsonLoads(line).data
                IN IF SkipLine(line) THEN ProcessLines(sp.rest, acc)
                   ELSE IF SectionRaises(data)
                        THEN [dishes |-> acc, buffer |-> sp.rest, raised |-> TRUE]
                   ELSE ProcessLines(sp.rest, Append(acc, BuildDish(data)))
                : sp \in {SplitLine(buf)} })

\* the residue left in the buffer at the end of the stream: dishes yielded
Residue(buf) ==
    LET line == Strip(buf)
        js == JsonLoads(line)
    IN IF StartsWith(line, LB) /\ EndsWith(line, RB)
       THEN IF js.ok /\ ~SectionRaises(js.data) THEN <<BuildDish(js.data)>> ELSE <<>>
       ELSE <<>>

\* ------------------------------------------------------------------------
\* Inputs: the upload and the text the upstream model streams back
\* ------------------------------------------------------------------------
MaxUpload == 10 * 1024 * 1024

Sizes == {MaxUpload, MaxUpload + 1}

LineSet ==
    { <<SP, LB, "section:", "'A b'", RB>>,     \* decodes; blanks around it
      <<LB, "name_en:", "5", RB>>,             \* decodes; a value that is no str
      <<LB, "section:", "5", RB>>,             \* parses; section is no str
      <<LB, "name_en:", RB>>,                  \* braces, but no JSON
      <<LB, "name_zh:", "'A b'">>,             \* cut off before the brace
      <<>> }                                   \* empty line

RECURSIVE Flatten(_)
Flatten(ls) == IF ls = <<>> THEN <<>> ELSE Head(ls) \o <<NL>> \o Flatten(Tail(ls))

LineSeqs == UNION { [1..n -> LineSet] : n \in 0..MaxLines }

\* every line is newline-terminated, except that the last one may be left open
Texts ==
    { Flatten(ls) : ls \in LineSeqs }
      \cup { SubSeq(Flatten(ls), 1, Len(Flatten(ls)) - 1) : ls \in LineSeqs \ {<<>>} }

\* ------------------------------------------------------------------------
\* State
\* ------------------------------------------------------------------------
VARIABLES
    contentsLen,   \* len(contents) of the upload
    text,          \* the text the upstream call will stream
    g_pc,          \* position of analyze_menu.generate
    events,        \* SSE frames yielded so far
    calls,         \* upstream create() calls made
    p_pc,          \* position of create_and_iterate_stream (worker thread)
    rest,          \* upstream text not yet delivered
    queue,         \* chunk_queue
    c_pc,          \* position of analyze_menu_image_stream
    buffer,        \* buffer
    exc,           \* the exception propagating out of the stream, if any
    taken,         \* the text appended to buffer so far (history of buffer += text)
    shapes,        \* deltas of any shape the upstream call will stream after the text
    sent,          \* how many of them the worker thread has put
    image,         \* the uploaded image
    payload,       \* image_bytes and image_format embedded in the upstream request
    t_pc,          \* position of analyze_menu_image (the two-step variant)
    t_step1,       \* what the first model call will answer
    t_step2,       \* what the second model call will answer
    t_calls,       \* model calls made by analyze_menu_image
    t_prompt,      \* markdown_menu embedded in the second prompt
    t_payload,     \* image_bytes and image_format of analyze_menu_image
    t_result,      \* how analyze_menu_image ended
    d_pc,          \* position of get_dish_detail or generate_image
    d_req,         \* the endpoint, and which optional request fields are set
    d_desc,        \* what the description model call will answer
    d_img,         \* what the image model call will answer
    d_prompts,     \* the prompts of the model calls made, in call order
    d_description, \* the value get_dish_description returned
    d_response,    \* the HTTP response of the endpoint
    m_stream,      \* per concurrent request: the chunks its upstream call streams, and its end
    m_ppc,         \* per request: position of its create_and_iterate_stream
    m_sent,        \* per request: chunks its worker thread has put
    m_queues,      \* the Queue objects, by the request that created them
    m_cpc,         \* per request: position of its analyze_menu_image_stream
    m_got,         \* per request: the chunks its consumer loop has received
    w_size,        \* max_workers of the loop's default executor
    w_pending,     \* its work queue: the calls submitted and not yet started, in order
    w_running      \* the calls its worker threads are running

svars ==
    <<contentsLen, text, g_pc, events, calls, p_pc, rest, queue, c_pc, buffer, exc,
      taken, shapes, sent, image, payload>>

tvars == <<t_pc, t_step1, t_step2, t_calls, t_prompt, t_payload, t_result>>

\* the variables of the specifications other than the streaming one
dvars == <<d_pc, d_req, d_desc, d_img, d_prompts, d_description, d_response>>

mvars == <<m_stream, m_ppc, m_sent, m_queues, m_cpc, m_got, w_size, w_pending, w_running>>

ovars == <<tvars, dvars, mvars>>

vars == <<svars, ovars>>

\* delta.content of a chunk: a str, a list, None ("none"), a delta without
\* the attribute ("absent"), a value of another type ("other"); "nodelta"
\* is a choice whose delta is None
NoContent == [t |-> "none", s |-> <<>>, items |-> <<>>]
StrContent(s) == [t |-> "str", s |-> s, items |-> <<>>]
ListContent(xs) == [t |-> "list", s |-> <<>>, items |-> xs]
OtherContent(t) == [t |-> t, s |-> <<>>, items |-> <<>>]

\* elements of a list content: a str, a dict with or without "text", another type
StrItem(s) == [t |-> "str", has_text |-> FALSE, v |-> PyStr(s)]
DictItem(v) == [t |-> "dict", has_text |-> TRUE, v |-> v]
BareDictItem == [t |-> "dict", has_text |-> FALSE, v |-> PyNone]
OtherItem == [t |-> "other", has_text |-> FALSE, v |-> PyNone]

\* queue items
Chunk(choices, content) == [kind |-> "chunk", choices |-> choices, content |-> content]
Sentinel == [kind |-> "none", choices |-> FALSE, content |-> NoContent]
Raised == [kind |-> "exc", choices |-> FALSE, content |-> NoContent]

\* SSE frames
DishEvent(d) == [type |-> "dish", dish |-> d, msg |-> ""]
DoneEvent == [type |-> "done", dish |-> NoDish, msg |-> ""]
ErrorEvent(m) == [type |-> "error", dish |-> NoDish, msg |-> m]

\* frames in which a dish without a section inherits the section of the dish
\* of the frame before it
DishEvents_Inherit(ds) ==
    [i \in 1..Len(ds) |->
        DishEvent(IF ds[i].category = PyStr(<<>>) /\ events # <<>>
                     /\ events[Len(events)].type = "dish"
                  THEN [ds[i] EXCEPT !.category = events[Len(events)].dish.category]
                  ELSE ds[i])]

DishEvents(ds) == [i \in 1..Len(ds) |-> DishEvent(ds[i])]

\* what the loop over a list content appends to out
RECURSIVE ItemsOut(_)
ItemsOut(xs) ==
    IF xs = <<>> THEN <<>>
    ELSE LET x == Head(xs)
         IN (IF x.t = "str" \/ (x.t = "dict" /\ x.has_text) THEN <<x.v>> ELSE <<>>)
              \o ItemsOut(Tail(xs))

\* "".join(out), which raises TypeError when an element of out is not a str
RECURSIVE Join(_)
Join(out) == IF out = <<>> THEN <<>> ELSE Head(out).s \o Join(Tail(out))

JoinRaises(out) == \E i \in 1..Len(out) : out[i].t # "str"

\* extract_text(delta): the text, or the TypeError of the join
extract_text(content) ==
    LET out == CASE content.t = "str" -> <<PyStr(content.s)>>
                 [] content.t = "list" -> ItemsOut(content.items)
                 [] OTHER -> <<>>
    IN IF JoinRaises(out) THEN [raised |-> TRUE, s |-> <<>>]
       ELSE [raised |-> FALSE, s |-> Join(out)]

\* the upload as an image: whether PIL can decode and re-encode it, and the
\* format its first bytes announce
Images == [ok : BOOLEAN, magic : {"png", "gif", "webp", "jpeg", "other"}, jpeg85 : {FALSE}]

GoodImage == [ok |-> TRUE, magic |-> "jpeg", jpeg85 |-> FALSE]

NoImage == [ok |-> FALSE, magic |-> "", jpeg85 |-> FALSE]

\* img.save(buf, format="JPEG", quality=85, optimize=True)
Reencoded(img) == [ok |-> TRUE, magic |-> "jpeg", jpeg85 |-> TRUE]

\* a compression that has already dropped the upload when it fails
Preprocess_LosesBytes(img) ==
    IF img.ok THEN [bytes |-> Reencoded(img), format |-> "jpeg"]
    ELSE [bytes |-> NoImage, format |-> "jpeg"]

\* image_bytes and image_format after the compression try/except of the stream
Preprocess(img) ==
    IF img.ok THEN [bytes |-> Reencoded(img), format |-> "jpeg"]
    ELSE [bytes |-> img, format |-> "jpeg"]

\* the same of analyze_menu_image, whose except branch reads the first bytes
PreprocessTwoStep(img) ==
    IF img.ok THEN [bytes |-> Reencoded(img), format |-> "jpeg"]
    ELSE [bytes |-> img, format |-> IF img.magic = "other" THEN "jpeg" ELSE img.magic]

NoPayload == [bytes |-> NoImage, format |-> ""]

\* a model answer of the two-step variant: create() raises, or the response has
\* no choices, or its message content is None, or it is a text
Response(kind, content) == [kind |-> kind, content |-> content]

NoResponse == Response("none", <<>>)

\* the outcome of analyze_menu_image: a returned list, or the raised Exception
Returned(v) == [kind |-> "ok", val |-> v]
RaisedError == [kind |-> "error", val |-> PyNone]
NoResult == [kind |-> "none", val |-> PyNone]

\* analyze_menu_image is not running
TwoStepIdle ==
    /\ t_pc = "idle"
    /\ t_step1 = NoResponse
    /\ t_step2 = NoResponse
    /\ t_calls = 0
    /\ t_prompt = <<>>
    /\ t_payload = NoPayload
    /\ t_result = NoResult

\* the HTTP response of a non-streaming endpoint: the status, and the body
HttpResponse(status, description, image_url) ==
    [status |-> status, description |-> description, image_url |-> image_url]

\* neither get_dish_detail nor generate_image is running
DetailIdle ==
    /\ d_pc = "idle"
    /\ d_req = [endpoint |-> "", translation |-> FALSE, menu_description |-> FALSE,
                translation_description |-> FALSE]
    /\ d_desc = NoResponse
    /\ d_img = NoResponse
    /\ d_prompts = <<>>
    /\ d_description = <<>>
    /\ d_response = HttpResponse(0, <<>>, <<>>)

\* the streaming requests served concurrently
Reqs == {1, 2}

\* no concurrent streaming requests are being served
PairIdle ==
    /\ m_stream = [r \in Reqs |-> [n |-> 0, end |-> "none"]]
    /\ m_ppc = [r \in Reqs |-> "idle"]
    /\ m_sent = [r \in Reqs |-> 0]
    /\ m_queues = [r \in Reqs |-> <<>>]
    /\ m_cpc = [r \in Reqs |-> "idle"]
    /\ m_got = [r \in Reqs |-> <<>>]
    /\ w_size = 1
    /\ w_pending = <<>>
    /\ w_running = {}

\* a streaming request on texts T, deltas D and images I, before generate runs
InitWith(T, D, I) ==
    /\ contentsLen \in Sizes
    /\ text \in T
    /\ shapes \in D
    /\ sent = 0
    /\ image \in I
    /\ g_pc = "read"
    /\ events = <<>>
    /\ calls = 0
    /\ p_pc = "idle"
    /\ rest = <<>>
    /\ queue = <<>>
    /\ c_pc = "idle"
    /\ buffer = <<>>
    /\ exc = ""
    /\ taken = <<>>
    /\ payload = NoPayload
    /\ TwoStepIdle
    /\ DetailIdle
    /\ PairIdle

Init == InitWith(Texts, {<<>>}, {GoodImage})

\* ------------------------------------------------------------------------
\* analyze_menu.generate
\* ------------------------------------------------------------------------
\* an off-by-one size check
TooLarge_AtLimit(n) == n >= MaxUpload

TooLarge(n) == n > MaxUpload

\* a size check that forgets the return after its error frame
GenRead_NoReturn ==
    /\ g_pc = "read"
    /\ IF TooLarge(contentsLen)
       THEN events' = Append(events, ErrorEvent("too_large"))
       ELSE UNCHANGED events
    /\ g_pc' = "opened"
    /\ UNCHANGED <<contentsLen, text, calls, p_pc, rest, queue, c_pc, buffer, exc, taken, shapes,
                 sent, image, payload, ovars>>

\* contents = await file.read(); the size check
GenRead ==
    /\ g_pc = "read"
    /\ IF TooLarge(contentsLen)
       THEN /\ events' = Append(events, ErrorEvent("too_large"))
            /\ g_pc' = "closed"
       ELSE /\ g_pc' = "opened"
            /\ UNCHANGED events
    /\ UNCHANGED <<contentsLen, text, calls, p_pc, rest, queue, c_pc, buffer, exc, taken, shapes,
                 sent, image, payload, ovars>>

\* first step of the async for: the stream body up to its first await
\* (the compression, base64, chunk_queue = Queue(),
\* run_in_executor(create_and_iterate_stream))
StreamStart ==
    /\ g_pc = "opened"
    /\ g_pc' = "streaming"
    /\ payload' = Preprocess(image)
    /\ queue' = <<>>
    /\ p_pc' = "submitted"
    /\ rest' = text
    /\ buffer' = <<>>
    /\ c_pc' = "poll"
    /\ UNCHANGED <<contentsLen, text, events, calls, exc, taken, shapes, sent, image, ovars>>

\* the async for is exhausted: the done frame
GenDone ==
    /\ g_pc = "streaming"
    /\ c_pc = "returned"
    /\ events' = Append(events, DoneEvent)
    /\ g_pc' = "closed"
    /\ UNCHANGED <<contentsLen, text, calls, p_pc, rest, queue, c_pc, buffer, exc, taken, shapes,
                 sent, image, payload, ovars>>

\* an except branch that swallows the exception without a frame
GenError_Silent ==
    /\ g_pc = "streaming"
    /\ c_pc = "raised"
    /\ g_pc' = "closed"
    /\ UNCHANGED <<contentsLen, text, events, calls, p_pc, rest, queue, c_pc, buffer, exc, taken, shapes,
                 sent, image, payload, ovars>>

\* except Exception: the error frame
GenError ==
    /\ g_pc = "streaming"
    /\ c_pc = "raised"
    /\ events' = Append(events, ErrorEvent(exc))
    /\ g_pc' = "closed"
    /\ UNCHANGED <<contentsLen, text, calls, p_pc, rest, queue, c_pc, buffer, exc, taken, shapes,
                 sent, image, payload, ovars>>

\* ------------------------------------------------------------------------
\* create_and_iterate_stream (worker thread)
\* ------------------------------------------------------------------------
\* a create() that is called again after it has raised
ProducerCreate_Retry ==
    /\ p_pc = "submitted"
    /\ calls' = calls + 1
    /\ \/ /\ p_pc' \in {"role", "iter"}
          /\ UNCHANGED queue
       \/ /\ p_pc' = "submitted"
          /\ UNCHANGED queue
       \/ /\ queue' = Append(queue, Raised)
          /\ p_pc' = "returning"
    /\ UNCHANGED <<contentsLen, text, g_pc, events, rest, c_pc, buffer, exc, taken, shapes,
                 sent, image, payload, ovars>>

\* stream = self.client.chat.completions.create(...): returns or raises
ProducerCreate ==
    /\ p_pc = "submitted"
    /\ calls' = calls + 1
    /\ \/ /\ p_pc' \in {"role", "iter"}
          /\ UNCHANGED queue
       \/ /\ queue' = Append(queue, Raised)
          /\ p_pc' = "returning"
    /\ UNCHANGED <<contentsLen, text, g_pc, events, rest, c_pc, buffer, exc, taken, shapes,
                 sent, image, payload, ovars>>

\* a leading chunk that carries the role and no text
ProducerRole ==
    /\ p_pc = "role"
    /\ queue' = Append(queue, Chunk(TRUE, NoContent))
    /\ p_pc' = "iter"
    /\ UNCHANGED <<contentsLen, text, g_pc, events, calls, rest, c_pc, buffer, exc, taken, shapes,
                 sent, image, payload, ovars>>

\* a put that blocks on a full queue (a Queue with a maxsize)
ProducerPut_Bounded ==
    /\ p_pc = "iter"
    /\ rest # <<>>
    /\ Len(queue) < MaxQueue
    /\ \E k \in 1..Len(rest) :
          /\ queue' = Append(queue, Chunk(TRUE, StrContent(SubSeq(rest, 1, k))))
          /\ rest' = SubSeq(rest, k + 1, Len(rest))
    /\ UNCHANGED <<contentsLen, text, g_pc, events, calls, p_pc, c_pc, buffer, exc, taken, shapes,
                 sent, image, payload, ovars>>

\* for chunk in stream: queue.put(chunk). The Queue is unbounded and put never
\* blocks; MaxQueue bounds how far the worker thread is taken to run ahead of a
\* request that is still being served
ProducerPut ==
    /\ p_pc = "iter"
    /\ rest # <<>>
    /\ Len(queue) < MaxQueue \/ g_pc = "disconnected"
    /\ \E k \in 1..Len(rest) :
          /\ queue' = Append(queue, Chunk(TRUE, StrContent(SubSeq(rest, 1, k))))
          /\ rest' = SubSeq(rest, k + 1, Len(rest))
    /\ UNCHANGED <<contentsLen, text, g_pc, events, calls, p_pc, c_pc, buffer, exc, taken, shapes,
                 sent, image, payload, ovars>>

\* a put at the head of the queue (a LifoQueue in place of the Queue)
ProducerShape_PutFirst ==
    /\ p_pc = "iter"
    /\ rest = <<>>
    /\ sent < Len(shapes)
    /\ queue' = <<shapes[sent + 1]>> \o queue
    /\ sent' = sent + 1
    /\ UNCHANGED <<contentsLen, text, g_pc, events, calls, p_pc, rest, c_pc, buffer, exc,
                 taken, shapes, image, payload, ovars>>

\* for chunk in stream: queue.put(chunk), for a chunk of any shape
ProducerShape ==
    /\ p_pc = "iter"
    /\ rest = <<>>
    /\ sent < Len(shapes)
    /\ queue' = Append(queue, shapes[sent + 1])
    /\ sent' = sent + 1
    /\ UNCHANGED <<contentsLen, text, g_pc, events, calls, p_pc, rest, c_pc, buffer, exc,
                 taken, shapes, image, payload, ovars>>

\* the stream is exhausted: queue.put(None)
ProducerEnd ==
    /\ p_pc = "iter"
    /\ rest = <<>>
    /\ sent = Len(shapes)
    /\ queue' = Append(queue, Sentinel)
    /\ p_pc' = "returning"
    /\ UNCHANGED <<contentsLen, text, g_pc, events, calls, rest, c_pc, buffer, exc, taken, shapes,
                 sent, image, payload, ovars>>

\* an exception raised after queue.put(None), still inside the try
ProducerRaise_AfterEnd ==
    /\ p_pc \in {"iter", "returning"}
    /\ queue' = Append(queue, Raised)
    /\ p_pc' = IF p_pc = "iter" THEN "returning" ELSE "done"
    /\ UNCHANGED <<contentsLen, text, g_pc, events, calls, rest, c_pc, buffer, exc, taken, shapes,
                 sent, image, payload, ovars>>

\* iterating the stream raises: queue.put(e)
ProducerRaise ==
    /\ p_pc = "iter"
    /\ queue' = Append(queue, Raised)
    /\ p_pc' = "returning"
    /\ UNCHANGED <<contentsLen, text, g_pc, events, calls, rest, c_pc, buffer, exc, taken, shapes,
                 sent, image, payload, ovars>>

\* the function returns: executor.done() becomes true
ProducerReturn ==
    /\ p_pc = "returning"
    /\ p_pc' = "done"
    /\ UNCHANGED <<contentsLen, text, g_pc, events, calls, rest, queue, c_pc, buffer, exc, taken, shapes,
                 sent, image, payload, ovars>>

\* ------------------------------------------------------------------------
\* analyze_menu_image_stream: the consumer loop
\* ------------------------------------------------------------------------
\* a buffer that is overwritten instead of extended
Accumulate_Overwrite(buf, txt) == txt

\* buffer += text
Accumulate(buf, txt) == buf \o txt

\* a loop that only collects the text and leaves all decoding to the end of
\* the stream
HandleChunk_Batch(item) ==
    IF ~item.choices \/ item.content.t = "nodelta"
    THEN /\ c_pc' = "poll"
         /\ UNCHANGED <<events, buffer, exc, taken>>
    ELSE \E x \in {extract_text(item.content)} :
            IF x.raised
            THEN /\ c_pc' = "raised"
                 /\ exc' = "type"
                 /\ UNCHANGED <<events, buffer, taken>>
            ELSE /\ taken' = taken \o x.s
                 /\ buffer' = Accumulate(buffer, x.s)
                 /\ c_pc' = "poll"
                 /\ UNCHANGED <<events, exc>>

\* one real chunk, from "if not chunk.choices" to "await asyncio.sleep(0)"
HandleChunk(item) ==
    IF ~item.choices \/ item.content.t = "nodelta"
    THEN /\ c_pc' = "poll"
         /\ UNCHANGED <<events, buffer, exc, taken>>
    ELSE \E x \in {extract_text(item.content)} :
            IF x.raised
            THEN /\ c_pc' = "raised"
                 /\ exc' = "type"
                 /\ UNCHANGED <<events, buffer, taken>>
            ELSE IF x.s = <<>>
            THEN /\ c_pc' = "poll"
                 /\ UNCHANGED <<events, buffer, exc, taken>>
            ELSE \E r \in {ProcessLines(Accumulate(buffer, x.s), <<>>)} :
                    /\ taken' = taken \o x.s
                    /\ events' = events \o DishEvents(r.dishes)
                    /\ buffer' = r.buffer
                    /\ IF r.raised
                       THEN c_pc' = "raised" /\ exc' = "attribute"
                       ELSE c_pc' = "poll" /\ UNCHANGED exc

\* chunk = await loop.run_in_executor(None, get_chunk), and what follows for
\* an item that is not None
ConsumerPoll ==
    /\ g_pc = "streaming"
    /\ c_pc = "poll"
    /\ IF queue = <<>>
       THEN /\ c_pc' = "none"                     \* Empty after the timeout
            /\ UNCHANGED <<queue, events, buffer, exc, taken>>
       ELSE /\ queue' = Tail(queue)
            /\ CASE Head(queue).kind = "none" ->
                       /\ c_pc' = "none"
                       /\ UNCHANGED <<events, buffer, exc, taken>>
                 [] Head(queue).kind = "exc" ->
                       /\ c_pc' = "raised"
                       /\ exc' = "upstream"
                       /\ UNCHANGED <<events, buffer, taken>>
                 [] OTHER -> HandleChunk(Head(queue))
    /\ UNCHANGED <<contentsLen, text, g_pc, calls, p_pc, rest, shapes, sent, image, payload,
                 ovars>>

\* a None that ends the loop at once, whatever the worker thread is doing
ConsumerNone_BreakOnNone ==
    /\ g_pc = "streaming"
    /\ c_pc = "none"
    /\ c_pc' = "flush"
    /\ UNCHANGED <<contentsLen, text, g_pc, events, calls, p_pc, rest, queue, buffer, exc,
                 taken, shapes, sent, image, payload, ovars>>

\* a loop that ends on a None as soon as the worker thread is done, without
\* looking at the queue
ConsumerNone_DoneOnly ==
    /\ g_pc = "streaming"
    /\ c_pc = "none"
    /\ c_pc' = IF p_pc = "done" THEN "flush" ELSE "poll"
    /\ UNCHANGED <<contentsLen, text, g_pc, events, calls, p_pc, rest, queue, buffer, exc, taken, shapes,
                 sent, image, payload, ovars>>

\* if chunk is None: executor.done(), chunk_queue.empty()
ConsumerNone ==
    /\ g_pc = "streaming"
    /\ c_pc = "none"
    /\ c_pc' = IF p_pc = "done" /\ queue = <<>> THEN "flush" ELSE "poll"
    /\ UNCHANGED <<contentsLen, text, g_pc, events, calls, p_pc, rest, queue, buffer, exc, taken, shapes,
                 sent, image, payload, ovars>>

\* after the loop: the residue of the buffer
ConsumerFlush ==
    /\ g_pc = "streaming"
    /\ c_pc = "flush"
    /\ events' = events \o DishEvents(Residue(buffer))
    /\ c_pc' = "returned"
    /\ UNCHANGED <<contentsLen, text, g_pc, calls, p_pc, rest, queue, buffer, exc, taken, shapes,
                 sent, image, payload, ovars>>

Next ==
    \/ GenRead
    \/ StreamStart
    \/ GenDone
    \/ GenError
    \/ ProducerCreate
    \/ ProducerRole
    \/ ProducerPut
    \/ ProducerEnd
    \/ ProducerRaise
    \/ ProducerReturn
    \/ ConsumerPoll
    \/ ConsumerNone
    \/ ConsumerFlush

Spec == Init /\ [][Next]_vars

\* the texts of the specification with fairness
LiveTexts == { t \in Texts : Len(t) <= MaxLiveLen }

InitLive == InitWith(LiveTexts, {<<>>}, {GoodImage})

\* ------------------------------------------------------------------------
\* The streaming request on deltas of every shape and on any image
\* ------------------------------------------------------------------------
ShapeLine == <<LB, "name_en:", "5", RB, NL>>

ItemSet ==
    { StrItem(<<JUNK>>), DictItem(PyStr(ShapeLine)), DictItem(PyNone), DictItem(PyNum(5)),
      BareDictItem, OtherItem }

ContentSet ==
    { ListContent(xs) : xs \in UNION { [1..n -> ItemSet] : n \in 0..MaxItems } }
      \cup { NoContent, OtherContent("absent"), OtherContent("other"),
             StrContent(<<>>), StrContent(<<JUNK>>) }

Deltas ==
    { Chunk(TRUE, c) : c \in ContentSet }
      \cup { Chunk(FALSE, NoContent), Chunk(TRUE, OtherContent("nodelta")) }

\* no delta, one delta of any shape, or one followed by a line of text
ShapeSeqs ==
    {<<>>} \cup { <<d>> : d \in Deltas }
      \cup { <<d, Chunk(TRUE, StrContent(ShapeLine))>> : d \in Deltas }

ShapeTexts == { <<>>, <<LB, "name_zh:", "'A b'", RB, NL>> }

ShapeImages == { img \in Images : img.magic \in {"png", "jpeg"} }

InitShapes == InitWith(ShapeTexts, ShapeSeqs, ShapeImages)

NextShapes == Next \/ ProducerShape

SpecShapes == InitShapes /\ [][NextShapes]_vars

\* ------------------------------------------------------------------------
\* The streaming request on texts that repeat a line
\* ------------------------------------------------------------------------
\* a line that parses, any line, and the first line again; the last line is
\* newline-terminated or left open for the residue
RepeatTexts ==
    LET ts == { Flatten(<<a, x, a>>) :
                  a \in { l \in LineSet : JsonLoads(Strip(l)).ok }, x \in LineSet }
    IN ts \cup { SubSeq(t, 1, Len(t) - 1) : t \in ts }

InitRepeat == InitWith(RepeatTexts, {<<>>}, {GoodImage})

SpecRepeat == InitRepeat /\ [][Next]_vars

\* ------------------------------------------------------------------------
\* analyze_menu_image: the two-step variant (Markdown, then JSON)
\* ------------------------------------------------------------------------
Step1Responses ==
    { Response("raise", <<>>), Response("nochoices", <<>>), Response("nocontent", <<>>) }
      \cup { Response("content", c) :
               c \in { <<>>, <<SP>>, <<NL, SP, NL>>, <<JUNK>>, <<SP, JUNK, NL>>,
                       <<JUNK, NL, JUNK>> } }

Step2Responses ==
    { Response("raise", <<>>), Response("nochoices", <<>>), Response("nocontent", <<>>) }
      \cup { Response("content", c) :
               c \in { <<>>, <<JUNK>>, <<"[]">>,
                       <<LB, "dishes:", "[{}]", RB>>,
                       <<JUNK, NL, LB, "dishes:", "[{}]", RB, NL, JUNK>>,
                       <<LB, "dishes:", "[]", RB, NL>>,
                       <<LB, "name_en:", "'A b'", RB>>,
                       <<LB, "dishes:", RB>>,
                       <<RB, LB>> } }

\* no streaming request is being served
StreamIdle ==
    /\ contentsLen = MaxUpload
    /\ text = <<>>
    /\ shapes = <<>>
    /\ sent = 0
    /\ g_pc = "idle"
    /\ events = <<>>
    /\ calls = 0
    /\ p_pc = "idle"
    /\ rest = <<>>
    /\ queue = <<>>
    /\ c_pc = "idle"
    /\ buffer = <<>>
    /\ exc = ""
    /\ taken = <<>>
    /\ payload = NoPayload

InitTwoStep ==
    /\ StreamIdle
    /\ image \in Images
    /\ t_pc = "step1"
    /\ t_step1 \in Step1Responses
    /\ t_step2 \in Step2Responses
    /\ t_calls = 0
    /\ t_prompt = <<>>
    /\ t_payload = NoPayload
    /\ t_result = NoResult
    /\ DetailIdle
    /\ PairIdle

\* not response.choices or not response.choices[0].message.content
EmptyResponse(r) == r.kind \in {"nochoices", "nocontent"} \/ r.content = <<>>

\* re.search(r'\{.*\}', s, re.DOTALL): from the first "{" to the last "}" after it
HasBraces(s) == \E i, j \in 1..Len(s) : i < j /\ s[i] = LB /\ s[j] = RB

FirstLB(s) == CHOOSE i \in 1..Len(s) : s[i] = LB /\ \A k \in 1..(i - 1) : s[k] # LB

LastRB(s) == CHOOSE j \in 1..Len(s) : s[j] = RB /\ \A k \in (j + 1)..Len(s) : s[k] # RB

BraceMatch(s) == IF HasBraces(s) THEN SubSeq(s, FirstLB(s), LastRB(s)) ELSE s

\* the result of the JSON step: result["dishes"] of a dict that has it, else []
DishesOf(content) ==
    LET js == JsonLoads(BraceMatch(Strip(content)))
    IN IF js.ok /\ js.isdict /\ "dishes" \in DOMAIN js.data
       THEN Returned(js.data["dishes"])
       ELSE Returned(PyList(0))

\* a step 1 that drops the prose of the Markdown it passes on
TwoStepFirst_Lossy ==
    /\ t_pc = "step1"
    /\ t_payload' = PreprocessTwoStep(image)
    /\ t_calls' = t_calls + 1
    /\ IF t_step1.kind = "raise"
       THEN /\ t_result' = RaisedError
            /\ t_pc' = "done"
            /\ UNCHANGED t_prompt
       ELSE IF EmptyResponse(t_step1)
       THEN /\ t_result' = Returned(PyList(0))
            /\ t_pc' = "done"
            /\ UNCHANGED t_prompt
       ELSE /\ t_prompt' = SelectSeq(Strip(t_step1.content), LAMBDA tok : tok # JUNK)
            /\ t_pc' = "step2"
            /\ UNCHANGED t_result
    /\ UNCHANGED <<t_step1, t_step2, svars, dvars, mvars>>

\* the compression, then step 1: the Markdown call, the empty check,
\* markdown_menu
TwoStepFirst ==
    /\ t_pc = "step1"
    /\ t_payload' = PreprocessTwoStep(image)
    /\ t_calls' = t_calls + 1
    /\ IF t_step1.kind = "raise"
       THEN /\ t_result' = RaisedError
            /\ t_pc' = "done"
            /\ UNCHANGED t_prompt
       ELSE IF EmptyResponse(t_step1)
       THEN /\ t_result' = Returned(PyList(0))
            /\ t_pc' = "done"
            /\ UNCHANGED t_prompt
       ELSE /\ t_prompt' = Strip(t_step1.content)
            /\ t_pc' = "step2"
            /\ UNCHANGED t_result
    /\ UNCHANGED <<t_step1, t_step2, svars, dvars, mvars>>

\* step 2: the JSON call on the Markdown, and the parse of its answer
TwoStepSecond ==
    /\ t_pc = "step2"
    /\ t_calls' = t_calls + 1
    /\ t_result' = IF t_step2.kind = "raise" THEN RaisedError
                   ELSE IF EmptyResponse(t_step2) THEN Returned(PyList(0))
                   ELSE DishesOf(t_step2.content)
    /\ t_pc' = "done"
    /\ UNCHANGED <<t_step1, t_step2, t_prompt, t_payload, svars, dvars, mvars>>

NextTwoStep == TwoStepFirst \/ TwoStepSecond

SpecTwoStep == InitTwoStep /\ [][NextTwoStep]_vars

\* ------------------------------------------------------------------------
\* get_dish_detail and generate_image: the endpoints that do not stream
\* ------------------------------------------------------------------------
DetailRequests ==
    { r \in [endpoint : {"get-dish-detail", "generate-image"}, translation : BOOLEAN,
             menu_description : BOOLEAN, translation_description : BOOLEAN] :
        r.endpoint = "generate-image" => ~r.translation_description }

InitDetail ==
    /\ StreamIdle
    /\ image = GoodImage
    /\ TwoStepIdle
    /\ d_req \in DetailRequests
    /\ d_pc = IF d_req.endpoint = "get-dish-detail" THEN "describe" ELSE "image"
    /\ d_desc \in { Response("raise", <<>>), Response("nochoices", <<>>),
                    Response("nocontent", <<>>) }
                    \cup { Response("content", c) : c \in {<<>>, <<SP>>, <<JUNK>>, <<SP, JUNK, NL>>} }
    /\ d_img \in { Response("raise", <<>>), Response("nodata", <<>>),
                   Response("content", <<"url">>) }
    /\ d_prompts = <<>>
    /\ d_description = <<>>
    /\ d_response = HttpResponse(0, <<>>, <<>>)
    /\ PairIdle

\* the prompt of get_dish_description
DescriptionPrompt(req) ==
    <<"dish_name">>
      \o (IF req.translation THEN <<"translation">> ELSE <<>>)
      \o (IF req.translation_description THEN <<"translation_description">>
          ELSE IF req.menu_description THEN <<"menu_description">> ELSE <<>>)
      \o <<"requirements">>

\* the prompt of generate_dish_image
ImagePrompt(req) ==
    <<"dish_name">>
      \o (IF req.translation THEN <<"translation">> ELSE <<>>)
      \o (IF req.menu_description THEN <<"menu_description">> ELSE <<>>)
      \o <<"style">>

\* what get_dish_description returns: the stripped answer, or one of its two
\* fixed texts when the answer is empty or the call raised
DescriptionOf(r) ==
    IF r.kind = "raise" THEN <<"description failed, retry">>
    ELSE IF EmptyResponse(r) THEN <<"description pending">>
    ELSE Strip(r.content)

\* an image step that swallows its failure the way the description step does
ImageRaises_Swallowed(r) == FALSE

\* generate_dish_image raises: the call raised, or the answer has no data
ImageRaises(r) == r.kind \in {"raise", "nodata"}

\* get_dish_detail up to the description: get_dish_description
GetDishDescription ==
    /\ d_pc = "describe"
    /\ d_prompts' = Append(d_prompts, DescriptionPrompt(d_req))
    /\ d_description' = DescriptionOf(d_desc)
    /\ d_pc' = "image"
    /\ UNCHANGED <<d_req, d_desc, d_img, d_response, svars, tvars, mvars>>

\* the rest of get_dish_detail: generate_dish_image, the body or the HTTPException
GetDishDetailImage ==
    /\ d_pc = "image"
    /\ d_req.endpoint = "get-dish-detail"
    /\ d_prompts' = Append(d_prompts, ImagePrompt(d_req))
    /\ d_response' = IF ImageRaises(d_img) THEN HttpResponse(500, <<>>, <<>>)
                     ELSE HttpResponse(200, d_description, d_img.content)
    /\ d_pc' = "done"
    /\ UNCHANGED <<d_req, d_desc, d_img, d_description, svars, tvars, mvars>>

\* generate_image: generate_dish_image, the body or the HTTPException
GenerateImage ==
    /\ d_pc = "image"
    /\ d_req.endpoint = "generate-image"
    /\ d_prompts' = Append(d_prompts, ImagePrompt(d_req))
    /\ d_response' = IF ImageRaises(d_img) THEN HttpResponse(500, <<>>, <<>>)
                     ELSE HttpResponse(200, <<>>, d_img.content)
    /\ d_pc' = "done"
    /\ UNCHANGED <<d_req, d_desc, d_img, d_description, svars, tvars, mvars>>

NextDetail == GetDishDescription \/ GetDishDetailImage \/ GenerateImage

SpecDetail == InitDetail /\ [][NextDetail]_vars

\* ------------------------------------------------------------------------
\* Two streaming requests in flight at once: their queues and worker threads
\* ------------------------------------------------------------------------
\* one Queue on the shared OpenAIService object instead of one per call
QueueOf_OnService(r) == 1

\* chunk_queue = Queue() is a local of each analyze_menu_image_stream call
QueueOf(r) == r

\* request r's upstream call streams the chunks <<r, 1>> .. <<r, n>>, then ends
\* normally ("none") or raises ("exc")
InitPair ==
    /\ StreamIdle
    /\ image = GoodImage
    /\ TwoStepIdle
    /\ DetailIdle
    /\ m_stream \in [Reqs -> [n : 0..MaxChunks, end : {"none", "exc"}]]
    /\ m_ppc = [r \in Reqs |-> "idle"]
    /\ m_sent = [r \in Reqs |-> 0]
    /\ m_queues = [r \in Reqs |-> <<>>]
    /\ m_cpc = [r \in Reqs |-> "idle"]
    /\ m_got = [r \in Reqs |-> <<>>]
    /\ w_size = 1
    /\ w_pending = <<>>
    /\ w_running = {}

\* the body of the stream up to its first await: Queue(), run_in_executor
PairStart(r) ==
    /\ m_cpc[r] = "idle"
    /\ m_queues' = [m_queues EXCEPT ![QueueOf(r)] = <<>>]
    /\ m_ppc' = [m_ppc EXCEPT ![r] = "iter"]
    /\ m_cpc' = [m_cpc EXCEPT ![r] = "poll"]
    /\ UNCHANGED <<m_stream, m_sent, m_got, w_size, w_pending, w_running, svars, tvars, dvars>>

\* create_and_iterate_stream of request r: one put, of a chunk or of the end
PairProduce(r) ==
    /\ m_ppc[r] = "iter"
    /\ IF m_sent[r] < m_stream[r].n
       THEN /\ m_queues' = [m_queues EXCEPT ![QueueOf(r)] =
                               Append(@, [kind |-> "chunk", id |-> <<r, m_sent[r] + 1>>])]
            /\ m_sent' = [m_sent EXCEPT ![r] = @ + 1]
            /\ UNCHANGED m_ppc
       ELSE /\ m_queues' = [m_queues EXCEPT ![QueueOf(r)] =
                               Append(@, [kind |-> m_stream[r].end, id |-> <<r, 0>>])]
            /\ m_ppc' = [m_ppc EXCEPT ![r] = "done"]
            /\ UNCHANGED m_sent
    /\ UNCHANGED <<m_stream, m_cpc, m_got, w_size, w_pending, w_running, svars, tvars, dvars>>

\* get_chunk of request r and what follows for an item that is not None
PairPoll(r) ==
    /\ m_cpc[r] = "poll"
    /\ LET q == m_queues[QueueOf(r)]
       IN IF q = <<>>
          THEN /\ m_cpc' = [m_cpc EXCEPT ![r] = "none"]
               /\ UNCHANGED <<m_queues, m_got>>
          ELSE /\ m_queues' = [m_queues EXCEPT ![QueueOf(r)] = Tail(q)]
               /\ m_cpc' = [m_cpc EXCEPT ![r] =
                              CASE Head(q).kind = "none" -> "none"
                                [] Head(q).kind = "exc" -> "raised"
                                [] OTHER -> "poll"]
               /\ m_got' = IF Head(q).kind = "chunk"
                           THEN [m_got EXCEPT ![r] = Append(@, Head(q).id)]
                           ELSE m_got
    /\ UNCHANGED <<m_stream, m_ppc, m_sent, w_size, w_pending, w_running, svars, tvars, dvars>>

\* if chunk is None, for request r: executor.done(), chunk_queue.empty()
PairNone(r) ==
    /\ m_cpc[r] = "none"
    /\ m_cpc' = [m_cpc EXCEPT ![r] =
                   IF m_ppc[r] = "done" /\ m_queues[QueueOf(r)] = <<>>
                   THEN "returned" ELSE "poll"]
    /\ UNCHANGED <<m_stream, m_ppc, m_sent, m_queues, m_got, w_size, w_pending, w_running,
                 svars, tvars, dvars>>

NextPair ==
    \E r \in Reqs : PairStart(r) \/ PairProduce(r) \/ PairPoll(r) \/ PairNone(r)

SpecPair == InitPair /\ [][NextPair]_vars

\* ------------------------------------------------------------------------
\* Streaming requests on the loop's default executor: run_in_executor(None, ...)
\* runs both create_and_iterate_stream and every get_chunk on its threads
\* ------------------------------------------------------------------------
\* request r's upstream call streams n chunks, then ends normally ("none"),
\* raises ("exc"), or delivers nothing more and never returns ("hang"); the
\* executor has min(32, cpu_count + 4) threads, taken here as 1..MaxWorkers
\* against the two requests
InitPool ==
    /\ StreamIdle
    /\ image = GoodImage
    /\ TwoStepIdle
    /\ DetailIdle
    /\ m_stream \in [Reqs -> [n : {0, MaxChunks - 1}, end : {"none", "exc", "hang"}]]
    /\ m_ppc = [r \in Reqs |-> "idle"]
    /\ m_sent = [r \in Reqs |-> 0]
    /\ m_queues = [r \in Reqs |-> <<>>]
    /\ m_cpc = [r \in Reqs |-> "idle"]
    /\ m_got = [r \in Reqs |-> <<>>]
    /\ w_size \in 1..MaxWorkers
    /\ w_pending = <<>>
    /\ w_running = {}

\* the calls handed to the executor
ProduceCall(r) == <<"create_and_iterate_stream", r>>
GetCall(r) == <<"get_chunk", r>>

\* the body of the stream up to its first await: Queue(), run_in_executor of
\* create_and_iterate_stream, then run_in_executor of the first get_chunk
PoolSubmit(r) ==
    /\ m_cpc[r] = "idle"
    /\ m_queues' = [m_queues EXCEPT ![r] = <<>>]
    /\ m_ppc' = [m_ppc EXCEPT ![r] = "submitted"]
    /\ m_cpc' = [m_cpc EXCEPT ![r] = "await"]
    /\ w_pending' = w_pending \o <<ProduceCall(r), GetCall(r)>>
    /\ UNCHANGED <<m_stream, m_sent, m_got, w_size, w_running, svars, tvars, dvars>>

\* a free worker thread takes the oldest call off the work queue
PoolTake ==
    /\ w_pending # <<>>
    /\ Cardinality(w_running) < w_size
    /\ w_running' = w_running \cup {Head(w_pending)}
    /\ w_pending' = Tail(w_pending)
    /\ \E c \in {Head(w_pending)} :
          m_ppc' = IF c[1] = "create_and_iterate_stream"
                   THEN [m_ppc EXCEPT ![c[2]] = "iter"] ELSE m_ppc
    /\ UNCHANGED <<m_stream, m_sent, m_queues, m_cpc, m_got, w_size, svars, tvars, dvars>>

\* create_and_iterate_stream of request r on its worker thread: one put, of a
\* chunk or of the end, after which the function returns and the thread is free
PoolProduce(r) ==
    /\ ProduceCall(r) \in w_running
    /\ IF m_sent[r] < m_stream[r].n
       THEN /\ m_queues' = [m_queues EXCEPT ![r] =
                               Append(@, [kind |-> "chunk", id |-> <<r, m_sent[r] + 1>>])]
            /\ m_sent' = [m_sent EXCEPT ![r] = @ + 1]
            /\ UNCHANGED <<m_ppc, w_running>>
       ELSE /\ m_stream[r].end # "hang"
            /\ m_queues' = [m_queues EXCEPT ![r] =
                               Append(@, [kind |-> m_stream[r].end, id |-> <<r, 0>>])]
            /\ m_ppc' = [m_ppc EXCEPT ![r] = "done"]
            /\ w_running' = w_running \ {ProduceCall(r)}
            /\ UNCHANGED m_sent
    /\ UNCHANGED <<m_stream, m_cpc, m_got, w_size, w_pending, svars, tvars, dvars>>

\* get_chunk of request r returns on its worker thread (an item, or None after
\* the timeout on an empty queue); for a chunk the coroutine goes round its
\* loop and hands the next get_chunk to the executor
PoolGet(r) ==
    /\ GetCall(r) \in w_running
    /\ w_running' = w_running \ {GetCall(r)}
    /\ LET q == m_queues[r]
       IN IF q = <<>>
          THEN /\ m_cpc' = [m_cpc EXCEPT ![r] = "none"]
               /\ UNCHANGED <<m_queues, m_got, w_pending>>
          ELSE /\ m_queues' = [m_queues EXCEPT ![r] = Tail(q)]
               /\ m_cpc' = [m_cpc EXCEPT ![r] =
                              CASE Head(q).kind = "none" -> "none"
                                [] Head(q).kind = "exc" -> "raised"
                                [] OTHER -> "await"]
               /\ m_got' = IF Head(q).kind = "chunk"
                           THEN [m_got EXCEPT ![r] = Append(@, Head(q).id)]
                           ELSE m_got
               /\ w_pending' = IF Head(q).kind = "chunk"
                               THEN Append(w_pending, GetCall(r)) ELSE w_pending
    /\ UNCHANGED <<m_stream, m_ppc, m_sent, w_size, svars, tvars, dvars>>

\* if chunk is None, for request r: executor.done() and chunk_queue.empty()
\* end the loop; otherwise sleep and hand the next get_chunk to the executor
PoolNone(r) ==
    /\ m_cpc[r] = "none"
    /\ IF m_ppc[r] = "done" /\ m_queues[r] = <<>>
       THEN /\ m_cpc' = [m_cpc EXCEPT ![r] = "returned"]
            /\ UNCHANGED w_pending
       ELSE /\ m_cpc' = [m_cpc EXCEPT ![r] = "await"]
            /\ w_pending' = Append(w_pending, GetCall(r))
    /\ UNCHANGED <<m_stream, m_ppc, m_sent, m_queues, m_got, w_size, w_running,
                 svars, tvars, dvars>>

NextPool ==
    \/ PoolTake
    \/ \E r \in Reqs : PoolSubmit(r) \/ PoolProduce(r) \/ PoolGet(r) \/ PoolNone(r)

\* the executor starts queued calls in order, running threads make progress,
\* and the event loop resumes every coroutine that is ready
SpecPool ==
    /\ InitPool
    /\ [][NextPool]_vars
    /\ WF_vars(PoolTake)
    /\ \A r \in Reqs : /\ WF_vars(PoolSubmit(r))
                       /\ WF_vars(PoolProduce(r))
                       /\ WF_vars(PoolGet(r))
                       /\ WF_vars(PoolNone(r))

\* ------------------------------------------------------------------------
\* The client goes away while the response is being streamed
\* ------------------------------------------------------------------------
\* StreamingResponse cancels the task that iterates generate(): the
\* CancelledError surfaces at the await the stream is suspended in, and no
\* except Exception clause catches it
ClientDisconnect ==
    /\ g_pc = "streaming"
    /\ g_pc' = "disconnected"
    /\ c_pc' = "cancelled"
    /\ UNCHANGED <<contentsLen, text, events, calls, p_pc, rest, queue, buffer, exc, taken,
                 shapes, sent, image, payload, ovars>>

NextDisconnect == Next \/ ClientDisconnect

\* the scheduling the runtime provides: the worker thread runs, and the event
\* loop resumes the request's coroutine
Producer ==
    ProducerCreate \/ ProducerRole \/ ProducerPut \/ ProducerEnd
      \/ ProducerRaise \/ ProducerReturn

Request ==
    GenRead \/ StreamStart \/ GenDone \/ GenError
      \/ ConsumerPoll \/ ConsumerNone \/ ConsumerFlush

FairSpec == InitLive /\ [][Next]_vars /\ WF_vars(Producer) /\ WF_vars(Request)

SpecDisconnect ==
    InitLive /\ [][NextDisconnect]_vars /\ WF_vars(Producer) /\ WF_vars(Request)

\* ------------------------------------------------------------------------
\* Derived views of a state
\* ------------------------------------------------------------------------
Started == g_pc \in {"streaming", "closed"} /\ c_pc # "idle"

RECURSIVE QueuedLen(_)
QueuedLen(q) ==
    IF q = <<>> THEN 0 ELSE Len(extract_text(Head(q).content).s) + QueuedLen(Tail(q))

\* upstream text handed to the queue so far, and the part the consumer has taken
Delivered == SubSeq(text, 1, Len(text) - Len(rest))

Consumed == SubSeq(text, 1, Len(text) - Len(rest) - QueuedLen(queue))

IsDish(e) == e.type = "dish"

Emitted == LET es == SelectSeq(events, IsDish) IN [i \in 1..Len(es) |-> es[i].dish]

Terminal(e) == e.type \in {"error", "done"}

EndsTerminal == events # <<>> /\ Terminal(events[Len(events)])

UpstreamFailed == exc = "upstream" \/ \E i \in 1..Len(queue) : queue[i].kind = "exc"

\* the consumer has dequeued the None the worker thread put at the end
SentinelTaken ==
    p_pc \in {"returning", "done"} /\ ~UpstreamFailed /\ queue = <<>> /\ sent = Len(shapes)

\* the text the consumer loop extracts from a queue item
DeltaText(d) ==
    IF d.kind # "chunk" \/ ~d.choices \/ d.content.t = "nodelta" THEN <<>>
    ELSE extract_text(d.content).s

RECURSIVE TextsOf(_)
TextsOf(q) == IF q = <<>> THEN <<>> ELSE DeltaText(Head(q)) \o TextsOf(Tail(q))

\* the text of everything the worker thread has put so far
Pushed == Delivered \o TextsOf(SubSeq(shapes, 1, sent))

\* ------------------------------------------------------------------------
\* Reference notions used by the properties
\* ------------------------------------------------------------------------
\* a resolved line that is empty, lacks the braces, or is no JSON
Malformed(line) ==
    \/ line = <<>>
    \/ ~(StartsWith(line, LB) /\ EndsWith(line, RB))
    \/ ~JsonLoads(line).ok

\* the text with its malformed complete lines taken out
RECURSIVE DropMalformed(_)
DropMalformed(t) ==
    IF ~HasNewline(t) THEN t
    ELSE LET sp == SplitLine(t)
         IN IF Malformed(Strip(sp.line)) THEN DropMalformed(sp.rest)
            ELSE sp.line \o <<NL>> \o DropMalformed(sp.rest)

\* the decoded objects of the complete lines of a text that parse, in line order
RECURSIVE ValidLines(_)
ValidLines(t) ==
    IF ~HasNewline(t) THEN <<>>
    ELSE LET sp == SplitLine(t)
         IN IF Malformed(Strip(sp.line)) THEN ValidLines(sp.rest)
            ELSE <<JsonLoads(Strip(sp.line)).data>> \o ValidLines(sp.rest)

\* every valid line has its record, in line order
OneRecordPerLine(ds, t) ==
    LET vs == ValidLines(t)
    IN /\ Len(ds) = Len(vs)
       /\ \A i \in 1..Len(vs) : ~SectionRaises(vs[i]) => ds[i] = BuildDish(vs[i])

StrOrNull(v) == v.t \in {"str", "none"}

\* ------------------------------------------------------------------------
\* Properties
\* ------------------------------------------------------------------------

\* C1: with the worker thread and the request's coroutine both scheduled, every
\* request is eventually closed, and a closed request has an error frame or a
\* done frame as its last frame.
C1_EndsWithTerminalEvent ==
    /\ <>(g_pc = "closed")
    /\ [](g_pc = "closed" => EndsTerminal)

C1_Witness ==
    g_pc = "closed" /\ calls = 1 /\ EndsTerminal /\ Len(events) >= 2

\* C2: in the frames of one request nothing follows an error or a done frame;
\* so there is at most one terminal frame and it is the last one.
C2_NothingAfterTerminal ==
    \A i \in 1..(Len(events) - 1) : ~Terminal(events[i])

C2_Witness ==
    g_pc = "closed" /\ Len(events) >= 2 /\ EndsTerminal

\* C3: however the upstream text is cut into fragments, the records emitted
\* and the buffer kept are those of processing the text taken so far as one
\* single fragment, and at the clean end the residue of that buffer is added.
C3_FragmentationInvariance ==
    Started =>
      LET whole == ProcessLines(Consumed, <<>>)
      IN /\ buffer = whole.buffer
         /\ whole.raised <=> (c_pc = "raised" /\ exc = "attribute")
         /\ Emitted = IF c_pc = "returned"
                      THEN whole.dishes \o Residue(whole.buffer)
                      ELSE whole.dishes

\* a line was carried over a fragment boundary after a record was emitted
C3_Witness ==
    /\ Started
    /\ Len(Emitted) >= 1
    /\ buffer # <<>>
    /\ queue # <<>>
    /\ Head(queue).kind = "chunk"
    /\ HasNewline(Head(queue).content.s)

\* C4 (as claimed): once the request is closed and the upstream call is over,
\* every valid line of the delivered text (the residue included at a clean
\* end) has exactly one record, and the records are in line order.
C4_OneRecordPerValidLineInOrder ==
    (g_pc = "closed" /\ p_pc = "done" /\ calls > 0) =>
      OneRecordPerLine(Emitted,
                       IF UpstreamFailed THEN Delivered ELSE Delivered \o <<NL>>)

\* C5: a malformed line gives no record and no error, and the frames are those
\* of the same text without its malformed lines.
C5_MalformedLineSkipped ==
    Started =>
      LET ref == ProcessLines(DropMalformed(Consumed), <<>>)
          tail == IF Malformed(Strip(ref.buffer)) THEN <<>> ELSE ref.buffer
      IN /\ ref.raised <=> (c_pc = "raised" /\ exc = "attribute")
         /\ Emitted = IF c_pc = "returned"
                      THEN ref.dishes \o Residue(tail)
                      ELSE ref.dishes

\* a malformed line with content was taken and a record came after it
C5_Witness ==
    /\ Started
    /\ HasNewline(Consumed)
    /\ Strip(SplitLine(Consumed).line) # <<>>
    /\ Malformed(Strip(SplitLine(Consumed).line))
    /\ Len(Emitted) >= 1

\* C6 (as claimed): every record emitted has each canonical key with a string
\* or null value, and decoding a line that parses never fails.
C6_CanonicalShape ==
    /\ exc # "attribute"
    /\ \A i \in 1..Len(Emitted) :
          /\ StrOrNull(Emitted[i].name)
          /\ StrOrNull(Emitted[i].translation)
          /\ StrOrNull(Emitted[i].category)
          /\ StrOrNull(Emitted[i].category_translation)
          /\ StrOrNull(Emitted[i].menu_description)
          /\ StrOrNull(Emitted[i].translation_description)

\* C7 (as claimed): when the upstream call fails after delivering text, the
\* frames are the records of all complete valid lines delivered, then exactly
\* one error frame, and no done frame.
C7_RecordsThenOneError ==
    (g_pc = "closed" /\ p_pc = "done" /\ UpstreamFailed /\ Delivered # <<>>) =>
      /\ OneRecordPerLine(Emitted, Delivered)
      /\ Len(events) = Len(Emitted) + 1
      /\ events[Len(events)].type = "error"

\* C8: an upload above 10 MiB gets exactly one error frame and no upstream
\* call or producer; an upload of at most 10 MiB is not rejected for its size.
C8_OversizedRejected ==
    /\ contentsLen > 10485760 =>
          /\ calls = 0
          /\ p_pc = "idle"
          /\ g_pc \in {"read", "closed"}
          /\ g_pc = "closed" => events = <<ErrorEvent("too_large")>>
    /\ contentsLen <= 10485760 =>
          /\ \A i \in 1..Len(events) : events[i].msg # "too_large"
          /\ g_pc = "closed" => calls = 1

C8_Witness ==
    contentsLen > 10485760 /\ g_pc = "closed" /\ Len(events) = 1

\* C9 (as claimed): at the clean end a residue that has the braces and parses
\* gives exactly one more record after the earlier ones; any other residue
\* gives none; and the stream ends with done.
C9_ResidueDecodedOnce ==
    (Started /\ c_pc = "returned") =>
      LET mid == ProcessLines(Consumed, <<>>).dishes
          line == Strip(buffer)
      IN /\ IF ShapeOk(line) /\ JsonLoads(line).ok
            THEN Len(Emitted) = Len(mid) + 1 /\ SubSeq(Emitted, 1, Len(mid)) = mid
            ELSE Emitted = mid
         /\ g_pc = "closed" => events[Len(events)] = DoneEvent

\* C10 (as claimed): when step 1 of the two-step extraction yields empty or
\* whitespace-only text, the extraction ends in the error outcome and the
\* second model call is not made.
C10_EmptyPhase1IsError ==
    (t_pc = "done" /\ t_step1.kind = "content" /\ Strip(t_step1.content) = <<>>) =>
      /\ t_result = RaisedError
      /\ t_calls = 1

\* C11: under every interleaving of the worker thread and the polling
\* consumer, the text the consumer has taken followed by the text still queued
\* is the text put, in the order put (nothing lost, duplicated or reordered);
\* when the consumer ends the stream normally the worker is done, the queue is
\* empty and every chunk of the upstream stream was taken and processed; when
\* it ends by re-raising the exception the worker has put, every chunk put
\* before that exception was taken.
C11_BridgeLosesNothing ==
    /\ Started => taken \o TextsOf(queue) = Pushed
    /\ c_pc \in {"flush", "returned"} =>
          /\ p_pc = "done"
          /\ queue = <<>>
          /\ taken = text \o TextsOf(shapes)
          /\ buffer = ProcessLines(taken, <<>>).buffer
          /\ c_pc = "returned" =>
                Emitted = ProcessLines(taken, <<>>).dishes \o Residue(buffer)
    /\ (c_pc = "raised" /\ exc = "upstream") =>
          /\ queue = <<>>
          /\ taken = Pushed
          /\ Emitted = ProcessLines(taken, <<>>).dishes

\* text was taken while two more chunks with text wait in the queue
C11_Witness ==
    /\ taken # <<>>
    /\ Len(queue) >= 2
    /\ DeltaText(queue[1]) # <<>>
    /\ DeltaText(queue[2]) # <<>>
    /\ DeltaText(queue[1]) # DeltaText(queue[2])

\* C12: the step that dequeues the None of the worker thread emits nothing and
\* takes no further item, and the stream then ends normally (done frame); the
\* step that dequeues an exception re-raises it, and the caller gets it as the
\* error frame; the loop is left for the normal end only when the worker
\* thread is done and the queue is empty, so a poll that timed out while the
\* worker runs or items remain is followed by another poll.
C12_ConsumerReactions ==
    /\ [][(queue # <<>> /\ Head(queue).kind = "none" /\ queue' = Tail(queue)) =>
            (c_pc' = "none" /\ events' = events /\ buffer' = buffer)]_vars
    /\ [][(queue # <<>> /\ Head(queue).kind = "exc" /\ queue' = Tail(queue)) =>
            (c_pc' = "raised" /\ exc' = "upstream" /\ events' = events)]_vars
    /\ [][(c_pc = "none" /\ c_pc' # "none") =>
            IF p_pc = "done" /\ queue = <<>> THEN c_pc' = "flush" ELSE c_pc' = "poll"]_vars
    /\ (Started /\ SentinelTaken) ~>
          (c_pc = "returned" /\ g_pc = "closed" /\ events[Len(events)] = DoneEvent)
    /\ (exc = "upstream") ~>
          (g_pc = "closed" /\ events[Len(events)] = ErrorEvent("upstream"))

\* a poll has timed out while the worker thread is still streaming
C12_Witness ==
    c_pc = "none" /\ queue = <<>> /\ p_pc = "iter" /\ rest # <<>> /\ taken # <<>>

\* C13 (as claimed): extract_text fails for no delta, whatever the shape of its
\* content, so the stream never ends with the error of an extraction; and for
\* a content that is None, absent or of another type it returns the empty text.
C13_ExtractNeverFails ==
    /\ exc # "type"
    /\ \A i \in 1..Len(queue) :
          (queue[i].kind = "chunk" /\ queue[i].content.t \in {"none", "absent", "other"}) =>
            extract_text(queue[i].content) = [raised |-> FALSE, s |-> <<>>]

\* C14 (as claimed): when an upstream model call made for get-dish-detail or
\* generate-image has failed, the response is a 500 and never a success body;
\* and every request ends with a response, a 200 or a 500.
C14_UpstreamFailureGives500 ==
    d_pc = "done" =>
      /\ d_response.status \in {200, 500}
      /\ (d_img.kind = "raise" \/ (Len(d_prompts) = 2 /\ d_desc.kind = "raise")) =>
            d_response.status = 500

\* C14 (amended): a failed or empty image call gives a 500 and nothing else
\* does; a failed description call of get-dish-detail is absorbed, the
\* description is then the fixed failure text, the image call is still made,
\* and the body is a success body when the image call succeeds; every request
\* ends with a 200 or a 500.
C14_ImageFailureGives500 ==
    d_pc = "done" =>
      /\ d_response.status \in {200, 500}
      /\ d_response.status = 500 <=> d_img.kind \in {"raise", "nodata"}
      /\ Len(d_prompts) = IF d_req.endpoint = "get-dish-detail" THEN 2 ELSE 1
      /\ d_prompts[Len(d_prompts)] = ImagePrompt(d_req)
      /\ (d_response.status = 200 /\ d_req.endpoint = "get-dish-detail") =>
            d_response.description =
              IF d_desc.kind = "raise" THEN <<"description failed, retry">>
              ELSE DescriptionOf(d_desc)

\* get-dish-detail answered 200 although its description call had raised
C14_Witness ==
    /\ d_pc = "done"
    /\ d_req.endpoint = "get-dish-detail"
    /\ d_desc.kind = "raise"
    /\ d_response.status = 200
    /\ d_response.description = <<"description failed, retry">>

\* C15: when the image cannot be decoded or re-encoded, the streaming request
\* goes on with the uploaded bytes unchanged, announced as jpeg; the upstream
\* call is made exactly as for a good image; and an error frame of a request
\* within the size limit always stems from the consumer loop after that call,
\* never from the preprocessing.
C15_PreprocessingNeverFails ==
    /\ (Started /\ ~image.ok) => (payload.bytes = image /\ payload.format = "jpeg")
    /\ (Started /\ image.ok) => (payload.bytes.jpeg85 /\ payload.format = "jpeg")
    /\ (g_pc = "closed" /\ contentsLen <= MaxUpload) => calls = 1
    /\ \A i \in 1..Len(events) :
          (events[i].type = "error" /\ contentsLen <= MaxUpload) =>
            (calls = 1 /\ c_pc = "raised" /\ events[i].msg = exc
               /\ exc \in {"upstream", "attribute", "type"})

\* an upload that cannot be decoded was streamed to its done frame
C15_Witness ==
    /\ ~image.ok
    /\ image.magic = "png"
    /\ g_pc = "closed"
    /\ calls = 1
    /\ payload.bytes = image
    /\ events # <<>>
    /\ events[Len(events)] = DoneEvent
    /\ Len(events) >= 2

\* C16: with two streaming requests in flight, under every interleaving of
\* their worker threads and consumer loops, each consumer receives the chunks
\* of its own upstream call and no others, in order; it ends normally exactly
\* after all of them when its own call ended normally, and with the exception
\* exactly when its own call raised, whatever the other request streams or
\* however it fails.
C16_QueuePrivate ==
    \A r \in Reqs :
       /\ Len(m_got[r]) <= m_stream[r].n
       /\ \A i \in 1..Len(m_got[r]) : m_got[r][i] = <<r, i>>
       /\ \A i \in 1..Len(m_queues[r]) : m_queues[r][i].id[1] = r
       /\ m_cpc[r] = "returned" =>
             (m_stream[r].end = "none" /\ Len(m_got[r]) = m_stream[r].n)
       /\ m_cpc[r] = "raised" =>
             (m_stream[r].end = "exc" /\ Len(m_got[r]) = m_stream[r].n)

\* both requests have chunks queued at the same time, one call will fail, and
\* request 1 has already received a chunk
C16_Witness ==
    /\ m_queues[1] # <<>>
    /\ m_queues[2] # <<>>
    /\ m_got[1] # <<>>
    /\ m_stream[2].end = "exc"
    /\ m_stream[1].end = "none"

\* C17: once the client has disconnected, no frame is added, nothing is taken
\* from the queue and the request stays disconnected; the worker thread is not
\* stopped and is never blocked: whenever it has a chunk to put it can put it,
\* and it goes on until it is done, which is after it has put its None or its
\* exception; what it has put stays in the queue, unread.
C17_DisconnectLeavesProducer ==
    /\ [][g_pc = "disconnected" =>
            /\ g_pc' = "disconnected"
            /\ c_pc' = "cancelled"
            /\ events' = events
            /\ buffer' = buffer
            /\ Len(queue') >= Len(queue)
            /\ SubSeq(queue', 1, Len(queue)) = queue]_vars
    /\ [](g_pc = "disconnected" /\ p_pc = "iter" /\ rest # <<>> => ENABLED ProducerPut)
    /\ [](g_pc = "disconnected" /\ p_pc # "done" => ENABLED Producer)
    /\ (g_pc = "disconnected") ~> (p_pc = "done")
    /\ [](g_pc = "disconnected" /\ p_pc = "done" /\ queue # <<>> =>
            queue[Len(queue)].kind \in {"none", "exc"})

\* after the disconnect the worker thread has put more than the bound on its
\* lead over a live consumer allows, and then its None
C17_Witness ==
    /\ g_pc = "disconnected"
    /\ p_pc = "done"
    /\ Len(queue) > MaxQueue + 1
    /\ queue[Len(queue)].kind = "none"
    /\ taken # <<>>

\* C18 (as claimed): the frames of a request hold at most one phase_complete
\* frame, it comes before every dish frame and before the done frame, and a
\* request whose upstream stream ended cleanly has emitted one.
C18_PhaseCompleteBeforeRecords ==
    /\ \A i, j \in 1..Len(events) :
          (events[i].type = "phase_complete" /\ events[j].type = "phase_complete") => i = j
    /\ \A i, j \in 1..Len(events) :
          (events[i].type = "phase_complete" /\ events[j].type \in {"dish", "done"}) => i < j
    /\ (g_pc = "closed" /\ c_pc = "returned") =>
          \E i \in 1..Len(events) : events[i].type = "phase_complete"

\* C19: in the two-step extraction the second model call is made only after
\* the first has returned a text; the Markdown embedded in its prompt is that
\* whole text (str.strip() takes off the blanks around it, nothing else);
\* and before the second call there is no result other than the error or the
\* empty list of a first step that failed or came back empty.
C19_PhaseOneBeforePhaseTwo ==
    /\ t_calls <= 2
    /\ t_pc = "step1" => (t_calls = 0 /\ t_prompt = <<>> /\ t_result = NoResult)
    /\ t_pc = "step2" =>
          /\ t_calls = 1
          /\ t_result = NoResult
          /\ t_step1.kind = "content"
          /\ t_prompt = Strip(t_step1.content)
    /\ t_calls = 2 =>
          /\ t_pc = "done"
          /\ t_step1.kind = "content"
          /\ t_step1.content # <<>>
          /\ t_prompt = Strip(t_step1.content)
    /\ (t_pc = "done" /\ t_calls = 1) =>
          /\ t_prompt = <<>>
          /\ t_result \in {RaisedError, Returned(PyList(0))}

\* both calls were made on a text of several lexemes with blanks around it,
\* and the second answered with dishes
C19_Witness ==
    /\ t_pc = "done"
    /\ t_calls = 2
    /\ t_step1.content # t_prompt
    /\ Len(t_prompt) >= 1
    /\ t_result = Returned(PyList(1))

RECURSIVE LinesOf(_)
LinesOf(t) ==
    IF ~HasNewline(t) THEN <<>>
    ELSE LET sp == SplitLine(t) IN <<Strip(sp.line)>> \o LinesOf(sp.rest)

\* how many of the first k lines are not malformed: the position of the
\* record of line k among the records
RecordAt(ls, k) == Cardinality({ i \in 1..k : ~Malformed(ls[i]) })

\* the lines the consumer has resolved: the complete lines of the text taken,
\* and at the clean end the residue
Resolved == LinesOf(IF c_pc = "returned" THEN taken \o <<NL>> ELSE taken)

\* C21: when the same valid line was decoded at two points of a stream (as a
\* newline-terminated line or as the residue), the two records emitted for it
\* are equal field for field, whatever line was resolved in between.
C21_DecodeIdempotent ==
    Started =>
      \A i, j \in 1..Len(Resolved) :
         (/\ i < j
          /\ Resolved[i] = Resolved[j]
          /\ ~Malformed(Resolved[i])
          /\ RecordAt(Resolved, j) <= Len(Emitted))
         => Emitted[RecordAt(Resolved, i)] = Emitted[RecordAt(Resolved, j)]

\* a line was decoded, a line with a section after it, and the first line again
C21_Witness ==
    /\ Started
    /\ Len(Resolved) = 3
    /\ Resolved[1] = Resolved[3]
    /\ Resolved[2] # Resolved[1]
    /\ Len(Emitted) = 3
    /\ Emitted[1].category # Emitted[2].category

\* C22: records are forwarded incrementally: whenever the consumer is between
\* two chunks (about to poll, or after a poll that returned nothing), every
\* complete line of the text taken so far that decodes already has its frame
\* among the frames sent, whether or not the worker thread has put the rest of
\* the response or its end marker.
C22_ForwardedIncrementally ==
    (Started /\ c_pc \in {"poll", "none", "flush"}) =>
      LET ls == LinesOf(taken)
      IN /\ Len(Emitted) = RecordAt(ls, Len(ls))
         /\ Len(events) = Len(Emitted)

\* two records are out while the worker thread still has text to deliver
C22_Witness ==
    /\ Started
    /\ c_pc = "poll"
    /\ p_pc = "iter"
    /\ rest # <<>>
    /\ queue = <<>>
    /\ Len(Emitted) = 2
    /\ buffer # <<>>

\* a step of the worker thread that puts an item on the queue
IsPut == Len(queue') = Len(queue) + 1

\* C23: the worker thread puts exactly one end marker per stream, None or the
\* exception, and nothing after it: a marker in the queue is its last item and
\* the thread is past its loop; every put is made before the marker, and the
\* put that takes the thread out of its loop is the put of the marker; the
\* thread leaves its loop in no other way and never resumes it.
C23_OneTerminalMarker ==
    /\ [](\A i \in 1..Len(queue) :
             queue[i].kind # "chunk" => (i = Len(queue) /\ p_pc \in {"returning", "done"}))
    /\ [][IsPut => /\ p_pc \in {"submitted", "role", "iter"}
                   /\ queue' = Append(queue, queue'[Len(queue')])
                   /\ (queue'[Len(queue')].kind # "chunk") <=> (p_pc' = "returning")]_vars
    /\ [][(p_pc' = "returning" /\ p_pc # "returning") => IsPut]_vars
    /\ [][(p_pc \in {"returning", "done"}) => (p_pc' \in {"returning", "done"})]_vars

\* the worker thread has returned after putting None behind a chunk that is
\* still queued
C23_Witness ==
    /\ p_pc = "done"
    /\ Len(queue) >= 2
    /\ queue[1].kind = "chunk"
    /\ queue[Len(queue)].kind = "none"
    /\ Len(Emitted) >= 1

\* the text after the last newline of a text
RECURSIVE AfterLastNewline(_)
AfterLastNewline(t) == IF ~HasNewline(t) THEN t ELSE AfterLastNewline(SplitLine(t).rest)

\* C24: whenever the consumer is between two chunks (it has finished with a
\* chunk and has not taken the next), and when it leaves the loop, the buffer
\* holds no newline: it is exactly the text taken after the last newline taken.
C24_BufferHasNoNewline ==
    (Started /\ c_pc \in {"poll", "none", "flush", "returned"}) =>
      /\ ~HasNewline(buffer)
      /\ buffer = AfterLastNewline(taken)

\* one chunk completed a line and a later one brought text without a newline
C24_Witness ==
    /\ Started
    /\ c_pc = "poll"
    /\ Len(LinesOf(taken)) >= 2
    /\ buffer # <<>>
    /\ rest # <<>>
    /\ Len(Emitted) >= 1

\* what the residue path yields for each line of a sequence of lines, in order
RECURSIVE ResidueEach(_)
ResidueEach(ls) == IF ls = <<>> THEN <<>> ELSE Residue(Head(ls)) \o ResidueEach(Tail(ls))

\* C25 (as claimed): a line has the same outcome on both decode paths: the
\* records emitted for the newline-terminated lines taken are exactly what
\* the residue path yields for each of those lines (the same record, or none),
\* and no line's content ends the stream with an error.
C25_SameOutcomeOnBothPaths ==
    Started =>
      /\ exc # "attribute"
      /\ Emitted = ResidueEach(Resolved)

\* a request has got its terminal event: its stream returned or raised
Ended(r) == m_cpc[r] \in {"returned", "raised"}

\* C26 (as claimed): with create_and_iterate_stream and get_chunk on the same
\* worker threads, and with as many requests as threads or more, every request
\* whose upstream call has returned or raised eventually gets its terminal
\* event.
C26_SharedPoolNoStarvation ==
    \A r \in Reqs : (m_ppc[r] = "done") ~> Ended(r)

\* the chunks the worker thread has put, the fragments of the text as one chunk
PutChunks ==
    (IF Delivered = <<>> THEN <<>> ELSE <<Chunk(TRUE, StrContent(Delivered))>>)
      \o SubSeq(shapes, 1, sent)

\* the frames of a stream whose chunks are handled one after the other with
\* nothing in between: no queue, no polls, no worker thread
RECURSIVE Replay(_, _, _, _)
Replay(chunks, buf, evs, end) ==
    IF chunks = <<>>
    THEN IF end = "exc" THEN Append(evs, ErrorEvent("upstream"))
         ELSE Append(evs \o DishEvents(Residue(buf)), DoneEvent)
    ELSE LET c == Head(chunks)
             x == extract_text(c.content)
             r == ProcessLines(Accumulate(buf, x.s), <<>>)
         IN IF ~c.choices \/ c.content.t = "nodelta"
            THEN Replay(Tail(chunks), buf, evs, end)
            ELSE IF x.raised THEN Append(evs, ErrorEvent("type"))
            ELSE IF x.s = <<>> THEN Replay(Tail(chunks), buf, evs, end)
            ELSE IF r.raised
                 THEN Append(evs \o DishEvents(r.dishes), ErrorEvent("attribute"))
            ELSE Replay(Tail(chunks), r.buffer, evs \o DishEvents(r.dishes), end)

\* C27: the frames of a streaming request are a function of the chunks its
\* upstream call delivered and of how that call ended: once the request is
\* closed and the worker thread is done, the frames are those of handling the
\* same chunks one after the other, whatever the interleaving of the worker
\* thread with the consumer and however many polls found the queue empty.
C27_EventsDependOnChunksOnly ==
    (g_pc = "closed" /\ p_pc = "done" /\ calls > 0) =>
      events = Replay(PutChunks, <<>>, <<>>, IF UpstreamFailed THEN "exc" ELSE "none")

\* a stream of text and of a list delta that ended normally with two records
C27_Witness ==
    /\ g_pc = "closed"
    /\ p_pc = "done"
    /\ sent >= 1
    /\ Delivered # <<>>
    /\ Len(Emitted) >= 2
    /\ events[Len(events)] = DoneEvent

====
